---------------------------- MODULE Spec2Model ----------------------------
(***************************************************************************)
(* A model of src/src/main.py: the shark and crocodile readers, the        *)
(* concatenation done by the script body, and create_map.                  *)
(*                                                                         *)
(* Table cells are tagged values: a float NaN (what pandas stores for a    *)
(* missing entry), Python's None, a number, or a string.  Strings are      *)
(* sequences of one-character strings so that lower(), ==, `in`, the       *)
(* ordering used by min()/max() and float() are computed, not assumed.     *)
(* Numbers are integers; a radius, which need not be integral, is kept as  *)
(* a fraction.  Columns that no decision of the program reads (sex,        *)
(* activity, provoked, the popup text) are left out of the rows.           *)
(***************************************************************************)
EXTENDS Integers, Sequences, FiniteSets, TLC

VARIABLES
    prog,               \* the entry point being run
    pc,                 \* position in it
    err,                \* the exception that ended the run, "" if none
    croc_csv,           \* content of the crocodile csv file
    shark_xlsx,         \* content of the shark spreadsheet
    df,                 \* read_shark_data: the frame being transformed
    data_croc,          \* return value of read_croc_data
    data_shark,         \* return value of read_shark_data
    data_combined,      \* the concatenated frame of the script body
    gdf,                \* create_map: its incident argument
    pop_gdf,            \* create_map: its population argument
    i,                  \* create_map: rows of gdf already iterated
    fg_croc_fatal,
    fg_croc_non_fatal,
    fg_shark_fatal,
    fg_shark_non_fatal,
    fg_population,
    field,              \* create_map: the chosen population column
    scale,              \* create_map: vmin, vmax and the colormap
    mode,               \* create_map: how the population layer is drawn
    j,                  \* create_map: rows of pop already iterated
    m,                  \* create_map: children of the map, in order
    saved               \* create_map: what m.save wrote

readerVars == <<croc_csv, shark_xlsx, df, data_croc, data_shark, data_combined>>
groupVars == <<fg_croc_fatal, fg_croc_non_fatal, fg_shark_fatal,
               fg_shark_non_fatal>>
mapVars == <<gdf, pop_gdf, i, groupVars, fg_population, field, scale, mode,
             j, m, saved>>
vars == <<prog, pc, err, readerVars, mapVars>>

-----------------------------------------------------------------------------
(* Bounds of the model.                                                    *)

MaxSharkRows == 2
MaxCrocRows == 2
MaxIncidents == 2
MaxPopRows == 3

-----------------------------------------------------------------------------
(* Cells.                                                                  *)

NaN == [k |-> "nan", v |-> 0, s |-> <<>>]
None == [k |-> "none", v |-> 0, s |-> <<>>]
Num(n) == [k |-> "num", v |-> n, s |-> <<>>]
Str(t) == [k |-> "str", v |-> 0, s |-> t]

\* pd.notna / pd.isna: NaN and None are both missing.
notna(x) == x.k \notin {"nan", "none"}

\* x >= n on a column: a comparison with a missing value is False.
Ge(x, n) == x.k = "num" /\ x.v >= n

\* x == n for a number n.
EqNum(x, n) == x.k = "num" /\ x.v = n

-----------------------------------------------------------------------------
(* Strings.                                                                *)

ToLower ==
    [c \in {"A","B","C","D","E","F","G","H","I","J","K","L","M",
            "N","O","P","Q","R","S","T","U","V","W","X","Y","Z"} |->
        CASE c = "A" -> "a" [] c = "B" -> "b" [] c = "C" -> "c"
          [] c = "D" -> "d" [] c = "E" -> "e" [] c = "F" -> "f"
          [] c = "G" -> "g" [] c = "H" -> "h" [] c = "I" -> "i"
          [] c = "J" -> "j" [] c = "K" -> "k" [] c = "L" -> "l"
          [] c = "M" -> "m" [] c = "N" -> "n" [] c = "O" -> "o"
          [] c = "P" -> "p" [] c = "Q" -> "q" [] c = "R" -> "r"
          [] c = "S" -> "s" [] c = "T" -> "t" [] c = "U" -> "u"
          [] c = "V" -> "v" [] c = "W" -> "w" [] c = "X" -> "x"
          [] c = "Y" -> "y" [] c = "Z" -> "z"]

\* str.lower()
lower(t) ==
    [n \in DOMAIN t |-> IF t[n] \in DOMAIN ToLower THEN ToLower[t[n]] ELSE t[n]]

\* sub in t, for strings
Contains(t, sub) ==
    \E n \in 0..(Len(t) - Len(sub)) : SubSeq(t, n + 1, n + Len(sub)) = sub

DigitVal ==
    [c \in {"0","1","2","3","4","5","6","7","8","9"} |->
        CASE c = "0" -> 0 [] c = "1" -> 1 [] c = "2" -> 2 [] c = "3" -> 3
          [] c = "4" -> 4 [] c = "5" -> 5 [] c = "6" -> 6 [] c = "7" -> 7
          [] c = "8" -> 8 [] c = "9" -> 9]

DigitChar == [n \in 0..9 |-> CHOOSE c \in DOMAIN DigitVal : DigitVal[c] = n]

RECURSIVE Digits(_)
Digits(n) == IF n < 10 THEN <<DigitChar[n]>>
             ELSE Append(Digits(n \div 10), DigitChar[n % 10])

\* str(x): "nan" for a NaN, "None" for None, the decimal digits of a number.
str(x) ==
    CASE x.k = "nan" -> <<"n","a","n">>
      [] x.k = "none" -> <<"N","o","n","e">>
      [] x.k = "str" -> x.s
      [] x.k = "num" -> IF x.v < 0 THEN <<"-">> \o Digits(-x.v) ELSE Digits(x.v)

-----------------------------------------------------------------------------
(* Tables are sequences of rows.  A row keeps its index label through      *)
(* every selection, as a pandas row does.                                  *)

TablesOf(rows, max) == UNION {[1..n -> rows] : n \in 0..max}

\* df[mask] and df.dropna: the rows for which keep holds, in order.
SelectRows(t, keep(_)) == SelectSeq(t, keep)

\* The shapely point that points_from_xy builds: it takes the two
\* coordinates as they are, a NaN included.
Point(x, y) == [x |-> x, y |-> y]

NaT == [nat |-> TRUE, year |-> 0, month |-> 0, day |-> 0]
Timestamp(y, mo, d) == [nat |-> FALSE, year |-> y, month |-> mo, day |-> d]

\* pd.to_datetime(frame of year, month, day=1, errors="coerce"): a missing
\* or impossible component gives NaT.  (Every year of the model lies in the
\* range a Timestamp can hold.)
to_datetime_ymd(year, month) ==
    IF year.k = "num" /\ month.k = "num" /\ month.v \in 1..12
    THEN Timestamp(year.v, month.v, 1)
    ELSE NaT

RECURSIVE ParseInt(_)
ParseInt(t) == IF t = <<>> THEN 0
               ELSE 10 * ParseInt(SubSeq(t, 1, Len(t) - 1)) + DigitVal[t[Len(t)]]

IsDigits(t) == t # <<>> /\ \A n \in DOMAIN t : t[n] \in DOMAIN DigitVal

\* pd.to_datetime(column, errors="coerce") on the texts of the model: a
\* four-digit year parses to its first of January, anything else is NaT.
to_datetime_text(x) ==
    IF x.k = "str" /\ Len(x.s) = 4 /\ IsDigits(x.s)
    THEN Timestamp(ParseInt(x.s), 1, 1)
    ELSE NaT

-----------------------------------------------------------------------------
(* read_shark_data                                                         *)

fatal == <<"f","a","t","a","l">>

\* lines 8-33: read the sheet, keep the named columns, rename them.
SharkFrame(sheet) ==
    [n \in DOMAIN sheet |->
        [index |-> n - 1,
         lat |-> sheet[n].Latitude,
         long |-> sheet[n].Longitude,
         Injury_severity |-> sheet[n].Injury_severity,
         Incident_month |-> sheet[n].Incident_month,
         Incident_year |-> sheet[n].Incident_year,
         species |-> sheet[n].Shark_common_name]]

\* A variant that tests whether the text contains "fatal".
is_fatal_contains(x) == IF Contains(lower(str(x)), fatal) THEN 1 ELSE 0

\* lines 43-45: the lambda of the is_fatal column.
is_fatal_of(x) == IF lower(str(x)) = fatal THEN 1 ELSE 0

\* A variant that looks at the latitude alone.
HasLatitude(r) == notna(r.lat)

\* line 47: the rows dropna(subset=["lat", "long"]) keeps.
HasCoordinates(r) == notna(r.lat) /\ notna(r.long)

\* A variant that also drops the year 2015.
YearAfter2015(r) == Ge(r.Incident_year, 2016)

\* line 49: the rows of the year mask.
YearMask(r) == Ge(r.Incident_year, 2015)

\* lines 51-70: the geometry column and the selection of the output columns.
SharkRecord(r) ==
    [index |-> r.index,
     geometry |-> Point(r.long, r.lat),
     lat |-> r.lat,
     long |-> r.long,
     is_fatal |-> Num(r.is_fatal),
     date |-> r.date,
     species |-> r.species]

SharkLoad ==
    /\ pc = "shark_load"
    /\ df' = SharkFrame(shark_xlsx)
    /\ pc' = "shark_date"
    /\ UNCHANGED <<prog, err, croc_csv, shark_xlsx, data_croc, data_shark,
                   data_combined, mapVars>>

SharkDate ==
    /\ pc = "shark_date"
    /\ df' = [n \in DOMAIN df |->
                 df[n] @@ [date |-> to_datetime_ymd(df[n].Incident_year,
                                                    df[n].Incident_month)]]
    /\ pc' = "shark_is_fatal"
    /\ UNCHANGED <<prog, err, croc_csv, shark_xlsx, data_croc, data_shark,
                   data_combined, mapVars>>

SharkIsFatal ==
    /\ pc = "shark_is_fatal"
    /\ df' = [n \in DOMAIN df |->
                 df[n] @@ [is_fatal |-> is_fatal_of(df[n].Injury_severity)]]
    /\ pc' = "shark_dropna"
    /\ UNCHANGED <<prog, err, croc_csv, shark_xlsx, data_croc, data_shark,
                   data_combined, mapVars>>

SharkDropNa ==
    /\ pc = "shark_dropna"
    /\ df' = SelectRows(df, HasCoordinates)
    /\ pc' = "shark_filter"
    /\ UNCHANGED <<prog, err, croc_csv, shark_xlsx, data_croc, data_shark,
                   data_combined, mapVars>>

SharkFilterYear ==
    /\ pc = "shark_filter"
    /\ df' = SelectRows(df, YearMask)
    /\ pc' = "shark_geometry"
    /\ UNCHANGED <<prog, err, croc_csv, shark_xlsx, data_croc, data_shark,
                   data_combined, mapVars>>

SharkReturn ==
    /\ pc = "shark_geometry"
    /\ data_shark' = [n \in DOMAIN df |-> SharkRecord(df[n])]
    /\ pc' = IF prog = "main" THEN "concat" ELSE "done"
    /\ UNCHANGED <<prog, err, croc_csv, shark_xlsx, df, data_croc,
                   data_combined, mapVars>>

-----------------------------------------------------------------------------
(* read_croc_data                                                          *)

crocodile == <<"c","r","o","c","o","d","i","l","e">>

\* lines 76-103 for one row of the file.
CrocRecord(n, r) ==
    [index |-> n - 1,
     geometry |-> Point(r.long, r.lat),
     lat |-> r.lat,
     long |-> r.long,
     is_fatal |-> r.is_fatal,
     date |-> to_datetime_text(r.date),
     species |-> Str(crocodile)]

ReadCrocData ==
    /\ pc = "read_croc"
    /\ data_croc' = [n \in DOMAIN croc_csv |-> CrocRecord(n, croc_csv[n])]
    /\ pc' = "shark_load"
    /\ UNCHANGED <<prog, err, croc_csv, shark_xlsx, df, data_shark,
                   data_combined, mapVars>>

-----------------------------------------------------------------------------
(* The script body, lines 280-288.                                         *)

\* pd.concat(..., ignore_index=True): the rows of both, relabelled.
concat(a, b) ==
    LET ab == a \o b
    IN  [n \in DOMAIN ab |-> [ab[n] EXCEPT !.index = n - 1]]

Concat ==
    /\ pc = "concat"
    /\ data_combined' = concat(data_croc, data_shark)
    /\ pc' = "done"
    /\ UNCHANGED <<prog, err, croc_csv, shark_xlsx, df, data_croc,
                   data_shark, mapVars>>

-----------------------------------------------------------------------------
(* create_map: the incident markers, lines 121-184.                        *)

shark == <<"s","h","a","r","k">>

\* A variant that asks for the species to be "shark" itself.
is_shark_exact(row) == lower(str(row.species)) = shark

\* line 149
is_shark(row) == Contains(lower(str(row.species)), shark)

\* line 150
icon_path(row) == IF is_shark(row) THEN "icons/shark.png"
                  ELSE "icons/crocodile.png"

\* line 152
fatal_branch(row) == EqNum(row.is_fatal, 1)

\* lines 152-159: the group the marker goes to, by the group's name.
target_group(row) ==
    IF fatal_branch(row)
    THEN (IF is_shark(row) THEN "Shark Attacks: Fatal"
          ELSE "Crocodile Attacks: Fatal")
    ELSE (IF is_shark(row) THEN "Shark Attacks: Non-fatal"
          ELSE "Crocodile Attacks: Non-fatal")

\* lines 178-183
Marker(n, row) ==
    [kind |-> "Marker", row |-> n,
     location |-> <<row.geometry.y, row.geometry.x>>,
     icon |-> icon_path(row),
     bg_color |-> IF fatal_branch(row) THEN "#d32f2f" ELSE "#f57c00"]

\* folium refuses a location that holds a NaN in the releases that validate
\* locations, and takes it in those that do not.
LocationHasNaN(row) == ~notna(row.geometry.y) \/ ~notna(row.geometry.x)

AddTo(group, name, n, row) ==
    IF target_group(row) = name THEN Append(group, Marker(n, row)) ELSE group

\* lines 121-139
CreateMapStart ==
    /\ pc = "create_map"
    /\ m' = <<>>
    /\ fg_croc_fatal' = <<>>
    /\ fg_croc_non_fatal' = <<>>
    /\ fg_shark_fatal' = <<>>
    /\ fg_shark_non_fatal' = <<>>
    /\ fg_population' = <<>>
    /\ i' = 0
    /\ pc' = "markers"
    /\ UNCHANGED <<prog, err, readerVars, gdf, pop_gdf, field, scale, mode,
                   j, saved>>

\* one iteration of the loop of line 141
AddIncidentMarker ==
    /\ pc = "markers"
    /\ i < Len(gdf)
    /\ LET row == gdf[i + 1]
       IN  /\ fg_croc_fatal' =
                 AddTo(fg_croc_fatal, "Crocodile Attacks: Fatal", i + 1, row)
           /\ fg_croc_non_fatal' =
                 AddTo(fg_croc_non_fatal, "Crocodile Attacks: Non-fatal",
                       i + 1, row)
           /\ fg_shark_fatal' =
                 AddTo(fg_shark_fatal, "Shark Attacks: Fatal", i + 1, row)
           /\ fg_shark_non_fatal' =
                 AddTo(fg_shark_non_fatal, "Shark Attacks: Non-fatal",
                       i + 1, row)
    /\ i' = i + 1
    /\ UNCHANGED <<prog, pc, err, readerVars, gdf, pop_gdf, fg_population,
                   field, scale, mode, j, m, saved>>

\* the same iteration when folium.Marker raises on a NaN location
MarkerRaises ==
    /\ pc = "markers"
    /\ i < Len(gdf)
    /\ LocationHasNaN(gdf[i + 1])
    /\ err' = "ValueError: Location values cannot contain NaNs"
    /\ pc' = "raised"
    /\ UNCHANGED <<prog, readerVars, mapVars>>

-----------------------------------------------------------------------------
(* create_map: the population layer, lines 186-266.                        *)

NoPop == [none |-> TRUE, cols |-> <<>>, rows |-> <<>>]

possible_names == <<"population_density", "pop_density", "population",
                    "pop", "density", "value">>

ColumnNames(pop) == {pop.cols[n].name : n \in DOMAIN pop.cols}

Column(pop, name) ==
    CHOOSE c \in {pop.cols[n] : n \in DOMAIN pop.cols} : c.name = name

\* line 198: select_dtypes(include=["number"]), in column order
numeric_cols(pop) ==
    LET IsNumber(c) == c.dtype = "number"
        sel == SelectSeq(pop.cols, IsNumber)
    IN  [n \in DOMAIN sel |-> sel[n].name]

NoField == [none |-> TRUE, name |-> ""]
Field(name) == [none |-> FALSE, name |-> name]

\* line 199: the first preferred name that is a column, of any dtype
preferred_field(pop) ==
    LET hits == {n \in DOMAIN possible_names :
                    possible_names[n] \in ColumnNames(pop)}
    IN  IF hits = {} THEN NoField
        ELSE Field(possible_names[CHOOSE n \in hits : \A k \in hits : n <= k])

\* lines 199-201
choose_field(pop) ==
    IF ~preferred_field(pop).none THEN preferred_field(pop)
    ELSE IF numeric_cols(pop) # <<>> THEN Field(numeric_cols(pop)[1])
    ELSE NoField

\* The cell of a row in a column.  A row carries one raw text; a number
\* column holds its value (NaN when it is empty or no number), an object
\* column holds the text itself (None when it is empty).
Cell(prow, col) ==
    IF col.dtype = "number"
    THEN (IF IsDigits(prow.raw) THEN Num(ParseInt(prow.raw)) ELSE NaN)
    ELSE (IF prow.raw = <<>> THEN None ELSE Str(prow.raw))

\* prow.get(field, None)
Val(pop, fld, prow) == Cell(prow, Column(pop, fld.name))

\* ord() on the characters of the raw texts: the digits and "x"
ord(c) == IF c \in DOMAIN DigitVal THEN 48 + DigitVal[c] ELSE 120

RECURSIVE StrLess(_, _)
\* a < b on strings
StrLess(a, b) ==
    IF b = <<>> THEN FALSE
    ELSE IF a = <<>> THEN TRUE
    ELSE IF ord(Head(a)) # ord(Head(b)) THEN ord(Head(a)) < ord(Head(b))
    ELSE StrLess(Tail(a), Tail(b))

\* a <= b between two cells of one column
CellLe(a, b) ==
    IF a.k = "num" THEN a.v <= b.v ELSE (a.s = b.s \/ StrLess(a.s, b.s))

\* line 204: pop[field].dropna()
Vals(pop, fld) ==
    LET all == [n \in DOMAIN pop.rows |-> Val(pop, fld, pop.rows[n])]
    IN  SelectSeq(all, notna)

SeqMin(vals) ==
    CHOOSE x \in {vals[n] : n \in DOMAIN vals} :
        \A n \in DOMAIN vals : CellLe(x, vals[n])

SeqMax(vals) ==
    CHOOSE x \in {vals[n] : n \in DOMAIN vals} :
        \A n \in DOMAIN vals : CellLe(vals[n], x)

\* float(x) succeeds on a number and on a text of digits
CanFloat(x) == x.k = "num" \/ (x.k = "str" /\ IsDigits(x.s))
Float(x) == IF x.k = "num" THEN x.v ELSE ParseInt(x.s)

NoScale == [built |-> FALSE, vmin |-> 0, vmax |-> 0]

\* lines 211-212
widen(vmin, vmax) == IF vmin = vmax THEN vmin + 1 ELSE vmax

\* lines 204-218, when no float() raises
build_scale(pop, fld) ==
    LET vals == Vals(pop, fld)
        vmin == IF Len(vals) > 0 THEN Float(SeqMin(vals)) ELSE 0
        vmax == IF Len(vals) > 0 THEN Float(SeqMax(vals)) ELSE 1
    IN  [built |-> TRUE, vmin |-> vmin, vmax |-> widen(vmin, vmax)]

\* lines 206-207 raise when the minimum or the maximum is no number
ScaleRaises(pop, fld) ==
    LET vals == Vals(pop, fld)
    IN  Len(vals) > 0 /\ (~CanFloat(SeqMin(vals)) \/ ~CanFloat(SeqMax(vals)))

\* line 220: set(pop.geometry.geom_type); a missing geometry has type None
NoGeometry == <<>>
geom_types(pop) == {pop.rows[n].geometry : n \in DOMAIN pop.rows}

\* line 222, for one geometry type
is_polygon(gt) == Contains(lower(gt), <<"p","o","l","y","g","o","n">>)

Transparent == [hex |-> "#ffffff00", at |-> 0]
cmap(x) == [hex |-> "cmap", at |-> x]

\* pop.to_json(): a missing value becomes null, read back as None
ToJson(x) == IF notna(x) THEN x ELSE None

\* A variant without the except branch's opacity: whatever is not
\* transparent by being None is drawn filled.
style_always_filled(val) ==
    IF val = None THEN [fillColor |-> Transparent, fillOpacity |-> "0.0"]
    ELSE IF CanFloat(val)
    THEN [fillColor |-> cmap(Float(val)), fillOpacity |-> "0.7"]
    ELSE [fillColor |-> Transparent, fillOpacity |-> "0.7"]

\* lines 223-236
style_function(val) ==
    IF val = None THEN [fillColor |-> Transparent, fillOpacity |-> "0.0"]
    ELSE IF CanFloat(val)
    THEN [fillColor |-> cmap(Float(val)), fillOpacity |-> "0.7"]
    ELSE [fillColor |-> Transparent, fillOpacity |-> "0.0"]

\* lines 238-242: the layer and the style each of its features gets
GeoJson(pop, fld) ==
    [kind |-> "GeoJson",
     styles |-> [n \in DOMAIN pop.rows |->
                    style_function(ToJson(Val(pop, fld, pop.rows[n])))]]

\* line 254, as a fraction with a positive denominator
radius(fval, vmin, vmax) ==
    LET d == vmax - vmin
        p == 18 * (fval - vmin) + 2 * d
        num == IF d < 0 THEN -p ELSE p
        den == IF d < 0 THEN -d ELSE d
    IN  IF num <= 2 * den THEN [num |-> 2, den |-> 1]
        ELSE [num |-> num, den |-> den]

\* line 246 and the try of lines 247-250: the rows that get a marker
gets_circle(val, prow) ==
    notna(val) /\ prow.geometry # NoGeometry /\ CanFloat(val)

\* lines 255-263
CircleMarker(n, fval, sc) ==
    [kind |-> "CircleMarker", row |-> n, fval |-> fval,
     radius |-> radius(fval, sc.vmin, sc.vmax),
     fill_color |-> cmap(fval)]

\* lines 186-203, entered when the loop of line 141 is over
ChooseField ==
    /\ pc = "markers"
    /\ i = Len(gdf)
    /\ field' = IF ~pop_gdf.none /\ Len(pop_gdf.rows) > 0
                THEN choose_field(pop_gdf) ELSE NoField
    /\ pc' = IF field'.none THEN "attach" ELSE "scale"
    /\ UNCHANGED <<prog, err, readerVars, gdf, pop_gdf, i, groupVars,
                   fg_population, scale, mode, j, m, saved>>

\* lines 204-218
BuildScale ==
    /\ pc = "scale"
    /\ IF ScaleRaises(pop_gdf, field)
       THEN /\ err' = "ValueError: could not convert string to float"
            /\ pc' = "raised"
            /\ UNCHANGED scale
       ELSE /\ scale' = build_scale(pop_gdf, field)
            /\ pc' = "geom_types"
            /\ UNCHANGED err
    /\ UNCHANGED <<prog, readerVars, gdf, pop_gdf, i, groupVars,
                   fg_population, field, mode, j, m, saved>>

\* lines 220-242: any() met a polygon type (before a None, if there is one)
RenderChoropleth ==
    /\ pc = "geom_types"
    /\ \E gt \in geom_types(pop_gdf) : gt # NoGeometry /\ is_polygon(gt)
    /\ fg_population' = Append(fg_population, GeoJson(pop_gdf, field))
    /\ mode' = "choropleth"
    /\ pc' = "legend"
    /\ UNCHANGED <<prog, err, readerVars, gdf, pop_gdf, i, groupVars, field,
                   scale, j, m, saved>>

\* line 222: any() met the None of a missing geometry, and None has no lower()
GeomTypeRaises ==
    /\ pc = "geom_types"
    /\ NoGeometry \in geom_types(pop_gdf)
    /\ err' = "AttributeError: 'NoneType' object has no attribute 'lower'"
    /\ pc' = "raised"
    /\ UNCHANGED <<prog, readerVars, mapVars>>

\* lines 220-244: no type is a polygon, the loop over the rows starts
StartCircles ==
    /\ pc = "geom_types"
    /\ \A gt \in geom_types(pop_gdf) : gt # NoGeometry /\ ~is_polygon(gt)
    /\ mode' = "circles"
    /\ j' = 0
    /\ pc' = "circles"
    /\ UNCHANGED <<prog, err, readerVars, gdf, pop_gdf, i, groupVars,
                   fg_population, field, scale, m, saved>>

\* one iteration of the loop of line 244
CircleStep ==
    /\ pc = "circles"
    /\ j < Len(pop_gdf.rows)
    /\ LET prow == pop_gdf.rows[j + 1]
           val == Val(pop_gdf, field, prow)
       IN  IF ~gets_circle(val, prow)
           THEN /\ j' = j + 1
                /\ UNCHANGED <<fg_population, pc, err>>
           ELSE IF scale.vmax - scale.vmin = 0
           THEN /\ err' = "ZeroDivisionError"
                /\ pc' = "raised"
                /\ UNCHANGED <<fg_population, j>>
           ELSE /\ fg_population' =
                      Append(fg_population,
                             CircleMarker(j + 1, Float(val), scale))
                /\ j' = j + 1
                /\ UNCHANGED <<pc, err>>
    /\ UNCHANGED <<prog, readerVars, gdf, pop_gdf, i, groupVars, field,
                   scale, mode, m, saved>>

\* line 266
AddLegend ==
    /\ \/ pc = "legend"
       \/ pc = "circles" /\ j = Len(pop_gdf.rows)
    /\ m' = Append(m, "Population density")
    /\ pc' = "attach"
    /\ UNCHANGED <<prog, err, readerVars, gdf, pop_gdf, i, groupVars,
                   fg_population, field, scale, mode, j, saved>>

-----------------------------------------------------------------------------
(* create_map: lines 268-276.                                              *)

FeatureGroups == <<"Crocodile Attacks: Fatal", "Crocodile Attacks: Non-fatal",
                   "Shark Attacks: Fatal", "Shark Attacks: Non-fatal",
                   "Population Density">>

\* A variant that attaches no control.
no_layer_control(children) == children

\* line 274
add_layer_control(children) == Append(children, "LayerControl")

\* lines 268-272
AttachGroups ==
    /\ pc = "attach"
    /\ m' = m \o FeatureGroups
    /\ pc' = "control"
    /\ UNCHANGED <<prog, err, readerVars, gdf, pop_gdf, i, groupVars,
                   fg_population, field, scale, mode, j, saved>>

AddLayerControl ==
    /\ pc = "control"
    /\ m' = add_layer_control(m)
    /\ pc' = "save"
    /\ UNCHANGED <<prog, err, readerVars, gdf, pop_gdf, i, groupVars,
                   fg_population, field, scale, mode, j, saved>>

\* line 276
Save ==
    /\ pc = "save"
    /\ saved' = [written |-> TRUE, children |-> m]
    /\ pc' = "done"
    /\ UNCHANGED <<prog, err, readerVars, gdf, pop_gdf, i, groupVars,
                   fg_population, field, scale, mode, j, m>>

-----------------------------------------------------------------------------
(* Inputs.                                                                 *)

SharkRow(c, ym, sev) ==
    [Latitude |-> c[1], Longitude |-> c[2], Injury_severity |-> sev,
     Incident_year |-> ym[1], Incident_month |-> ym[2],
     Shark_common_name |-> Str(<<"w","h","i","t","e"," ","s","h","a","r","k">>)]

Coordinates == {<<Num(-33), Num(151)>>, <<NaN, Num(151)>>,
                <<Num(-33), NaN>>, <<NaN, NaN>>}

YearMonths == {<<Num(2014), Num(6)>>, <<Num(2015), Num(6)>>,
               <<Num(2016), NaN>>, <<NaN, Num(6)>>, <<Num(2015), Num(13)>>}

Severities == {Str(fatal), Str(<<"F","a","t","a","l">>),
               Str(<<"F","A","T","A","L">>), Str(<<"f","a","t","a","l"," ">>),
               Str(<<"n","o","n","-","f","a","t","a","l">>),
               Str(<<"i","n","j","u","r","e","d">>), NaN}

SharkRows ==
    {SharkRow(c, ym, Str(fatal)) : c \in Coordinates, ym \in YearMonths}
    \cup {SharkRow(<<Num(-33), Num(151)>>, <<Num(2015), Num(6)>>, sev) :
             sev \in Severities}

FewSharkRows ==
    {SharkRow(c, ym, Str(fatal)) :
        c \in {<<Num(-33), Num(151)>>, <<NaN, Num(151)>>},
        ym \in {<<Num(2015), Num(6)>>}}

CrocRows ==
    {[lat |-> c[1], long |-> c[2], is_fatal |-> f,
      date |-> Str(<<"2","0","2","0">>)] :
        c \in {<<Num(-12), Num(131)>>, <<NaN, Num(131)>>,
               <<Num(-12), NaN>>, <<NaN, NaN>>},
        f \in {Num(0), Num(1)}}
    \cup {[lat |-> Num(-12), long |-> Num(131), is_fatal |-> Num(1),
           date |-> NaN]}

IncidentRow(sp, f, c) ==
    [geometry |-> Point(c[2], c[1]), lat |-> c[1], long |-> c[2],
     is_fatal |-> f, date |-> NaT, species |-> sp]

IncidentRows ==
    {IncidentRow(sp, f, <<Num(-12), Num(131)>>) :
        sp \in {Str(crocodile),
                Str(<<"W","h","i","t","e"," ","S","h","a","r","k">>),
                Str(<<"w","o","b","b","e","g","o","n","g">>),
                NaN},
        f \in {Num(0), Num(1), NaN}}
    \cup {IncidentRow(Str(crocodile), f, <<NaN, Num(131)>>) :
             f \in {Num(0), Num(1)}}

Labelled(t) == [n \in DOMAIN t |-> t[n] @@ [index |-> n - 1]]

PopLayouts ==
    {<<>>,
     <<[name |-> "name", dtype |-> "object"]>>,
     <<[name |-> "id", dtype |-> "number"],
       [name |-> "count", dtype |-> "number"]>>,
     <<[name |-> "name", dtype |-> "object"],
       [name |-> "count", dtype |-> "number"]>>,
     <<[name |-> "density", dtype |-> "number"],
       [name |-> "population", dtype |-> "number"]>>,
     <<[name |-> "count", dtype |-> "number"],
       [name |-> "value", dtype |-> "object"]>>}

\* The two layouts whose chosen column is a number column ("id") and an
\* object column ("value").
TwoLayouts ==
    {<<[name |-> "id", dtype |-> "number"],
       [name |-> "count", dtype |-> "number"]>>,
     <<[name |-> "count", dtype |-> "number"],
       [name |-> "value", dtype |-> "object"]>>}

PointGeom == <<"P","o","i","n","t">>
PolygonGeom == <<"P","o","l","y","g","o","n">>
MultiPolygonGeom == <<"M","u","l","t","i","P","o","l","y","g","o","n">>

PopRows ==
    [geometry : {PointGeom},
     raw : {<<>>, <<"5">>, <<"9">>, <<"1","0">>, <<"5","x">>}]
    \cup [geometry : {PolygonGeom}, raw : {<<>>, <<"5">>, <<"5","x">>}]
    \cup [geometry : {MultiPolygonGeom, NoGeometry}, raw : {<<"9">>}]

\* Every layout with at most one row, and the two layouts with more rows.
PopTables ==
    {[none |-> FALSE, cols |-> c, rows |-> r] :
        c \in PopLayouts, r \in TablesOf(PopRows, 1)}
    \cup {[none |-> FALSE, cols |-> c, rows |-> r] :
             c \in TwoLayouts, r \in TablesOf(PopRows, MaxPopRows)}

-----------------------------------------------------------------------------
(* Specifications.                                                         *)

NotWritten == [written |-> FALSE, children |-> <<>>]

ReaderIdle ==
    /\ df = <<>>
    /\ data_croc = <<>>
    /\ data_shark = <<>>
    /\ data_combined = <<>>

MapIdle ==
    /\ i = 0
    /\ fg_croc_fatal = <<>>
    /\ fg_croc_non_fatal = <<>>
    /\ fg_shark_fatal = <<>>
    /\ fg_shark_non_fatal = <<>>
    /\ fg_population = <<>>
    /\ field = NoField
    /\ scale = NoScale
    /\ mode = ""
    /\ j = 0
    /\ m = <<>>
    /\ saved = NotWritten

\* The script body up to the call of create_map: both files are read and
\* the two frames are concatenated.
Init ==
    /\ prog = "main"
    /\ pc = "read_croc"
    /\ err = ""
    /\ croc_csv \in TablesOf(CrocRows, MaxCrocRows)
    /\ shark_xlsx \in TablesOf(FewSharkRows, 1)
    /\ ReaderIdle
    /\ gdf = <<>>
    /\ pop_gdf = NoPop
    /\ MapIdle

ReadSharkData ==
    \/ SharkLoad
    \/ SharkDate
    \/ SharkIsFatal
    \/ SharkDropNa
    \/ SharkFilterYear
    \/ SharkReturn

Next ==
    \/ ReadCrocData
    \/ ReadSharkData
    \/ Concat

Spec == Init /\ [][Next]_vars

\* A call of read_shark_data on a sheet.
InitShark ==
    /\ prog = "read_shark_data"
    /\ pc = "shark_load"
    /\ err = ""
    /\ croc_csv = <<>>
    /\ shark_xlsx \in TablesOf(SharkRows, MaxSharkRows)
    /\ ReaderIdle
    /\ gdf = <<>>
    /\ pop_gdf = NoPop
    /\ MapIdle

SpecShark == InitShark /\ [][ReadSharkData]_vars

\* A call of create_map: on any incident frame with the population frame
\* absent or empty, and on any population frame with one incident.
InitMap ==
    /\ prog = "create_map"
    /\ pc = "create_map"
    /\ err = ""
    /\ croc_csv = <<>>
    /\ shark_xlsx = <<>>
    /\ ReaderIdle
    /\ \/ /\ gdf \in {Labelled(t) : t \in TablesOf(IncidentRows, MaxIncidents)}
          /\ pop_gdf \in {NoPop, [none |-> FALSE, cols |-> <<>>, rows |-> <<>>]}
       \/ /\ gdf = Labelled(<<IncidentRow(Str(crocodile), Num(1),
                                          <<Num(-12), Num(131)>>)>>)
          /\ pop_gdf \in PopTables
    /\ MapIdle

NextMap ==
    \/ CreateMapStart
    \/ AddIncidentMarker
    \/ MarkerRaises
    \/ ChooseField
    \/ BuildScale
    \/ RenderChoropleth
    \/ GeomTypeRaises
    \/ StartCircles
    \/ CircleStep
    \/ AddLegend
    \/ AttachGroups
    \/ AddLayerControl
    \/ Save

SpecMap == InitMap /\ [][NextMap]_vars

-----------------------------------------------------------------------------
(* Properties of read_shark_data, under SpecShark.                         *)

SheetRow(rec) == shark_xlsx[rec.index + 1]
SheetHasCoordinates(r) == r.Latitude.k = "num" /\ r.Longitude.k = "num"
Kept(n) == \E k \in DOMAIN data_shark : data_shark[k].index = n - 1

\* C1: no row of the sheet whose Latitude or Longitude is missing appears
\* in the output of read_shark_data, and every output record has both lat
\* and long present.
C1_NoRowWithoutCoordinates ==
    /\ \A k \in DOMAIN data_shark :
          /\ data_shark[k].lat.k = "num"
          /\ data_shark[k].long.k = "num"
          /\ SheetHasCoordinates(SheetRow(data_shark[k]))
    /\ \A n \in DOMAIN shark_xlsx :
          ~SheetHasCoordinates(shark_xlsx[n]) => ~Kept(n)

\* A sheet with a recent row that lacks a coordinate and a row that is kept.
C1_Witness ==
    /\ pc = "done"
    /\ data_shark # <<>>
    /\ \E n \in DOMAIN shark_xlsx :
          /\ ~SheetHasCoordinates(shark_xlsx[n])
          /\ shark_xlsx[n].Incident_year = Num(2015)

SheetYearFrom2015(r) ==
    r.Incident_year.k = "num" /\ ~(r.Incident_year.v < 2015)

\* C2: every output record of read_shark_data comes from a row whose
\* Incident.year is present and at least 2015, and every row with both
\* coordinates and such a year is kept, whether or not its date could be
\* built.
C2_YearFilter ==
    /\ \A k \in DOMAIN data_shark : SheetYearFrom2015(SheetRow(data_shark[k]))
    /\ pc = "done" =>
          \A n \in DOMAIN shark_xlsx :
              (SheetHasCoordinates(shark_xlsx[n])
                   /\ SheetYearFrom2015(shark_xlsx[n])) => Kept(n)

\* A kept row of 2015 whose date is NaT, beside a row dropped for its year.
C2_Witness ==
    /\ pc = "done"
    /\ \E k \in DOMAIN data_shark :
          /\ data_shark[k].date = NaT
          /\ SheetRow(data_shark[k]).Incident_year = Num(2015)
    /\ \E n \in DOMAIN shark_xlsx :
          /\ SheetHasCoordinates(shark_xlsx[n])
          /\ ~SheetYearFrom2015(shark_xlsx[n])
          /\ ~Kept(n)

\* The text is "fatal" up to the case of its letters.
IsFatalIgnoringCase(x) ==
    /\ x.k = "str"
    /\ Len(x.s) = 5
    /\ \A n \in 1..5 : x.s[n] \in {fatal[n], <<"F","A","T","A","L">>[n]}

\* C3: in every output record of read_shark_data is_fatal is 1 if the
\* row's Injury.severity equals "fatal" up to case and 0 otherwise (a
\* missing severity, a text that only contains "fatal"); it is never
\* another value.
C3_FatalFlag ==
    \A k \in DOMAIN data_shark :
        /\ data_shark[k].is_fatal \in {Num(0), Num(1)}
        /\ data_shark[k].is_fatal = Num(1)
              <=> IsFatalIgnoringCase(SheetRow(data_shark[k]).Injury_severity)

\* An output with a record flagged for "FATAL" and one not flagged for
\* "non-fatal".
C3_Witness ==
    /\ pc = "done"
    /\ \E k \in DOMAIN data_shark :
          /\ SheetRow(data_shark[k]).Injury_severity
                = Str(<<"F","A","T","A","L">>)
          /\ data_shark[k].is_fatal = Num(1)
    /\ \E k \in DOMAIN data_shark :
          /\ SheetRow(data_shark[k]).Injury_severity
                = Str(<<"n","o","n","-","f","a","t","a","l">>)
          /\ data_shark[k].is_fatal = Num(0)

-----------------------------------------------------------------------------
(* Properties of the readers together, under Spec.                         *)

ValidPointAt(rec) ==
    /\ rec.lat.k = "num"
    /\ rec.long.k = "num"
    /\ rec.geometry.x = rec.long
    /\ rec.geometry.y = rec.lat

\* C4: every record output by read_shark_data and by read_croc_data, and
\* so every record of the combined frame, has a point geometry whose x is
\* the record's long and whose y is its lat, none built from a missing
\* coordinate.
C4_ValidGeometry ==
    /\ \A k \in DOMAIN data_shark : ValidPointAt(data_shark[k])
    /\ \A k \in DOMAIN data_croc : ValidPointAt(data_croc[k])
    /\ \A k \in DOMAIN data_combined : ValidPointAt(data_combined[k])

-----------------------------------------------------------------------------
(* Properties of create_map, under SpecMap.                                *)

AttackGroups == <<fg_croc_fatal, fg_croc_non_fatal, fg_shark_fatal,
                  fg_shark_non_fatal>>

MarkersOf(group, n) == {k \in DOMAIN group : group[k].row = n}

\* The text holds the word, up to the case of its letters.
HasWordIgnoringCase(t, word, WORD) ==
    \E n \in 0..(Len(t) - Len(word)) :
        \A k \in 1..Len(word) : t[n + k] \in {word[k], WORD[k]}

NamesShark(row) ==
    /\ row.species.k = "str"
    /\ HasWordIgnoringCase(row.species.s, shark, <<"S","H","A","R","K">>)

IsFatalOne(row) == row.is_fatal.k = "num" /\ row.is_fatal.v = 1

ExpectedGroup(row) ==
    CASE NamesShark(row) /\ IsFatalOne(row) -> 3
      [] NamesShark(row) /\ ~IsFatalOne(row) -> 4
      [] ~NamesShark(row) /\ IsFatalOne(row) -> 1
      [] ~NamesShark(row) /\ ~IsFatalOne(row) -> 2

LoopOver == pc \in {"scale", "geom_types", "circles", "legend", "attach",
                    "control", "save", "done"}

Positions(children, name) == {n \in DOMAIN children : children[n] = name}

\* C6: the map a completed run of create_map saves holds exactly one
\* layer control and each of the five feature groups, the control after
\* all five groups; a completed run has saved the map.
C6_OneLayerControl ==
    /\ pc = "done" => saved.written
    /\ saved.written =>
          /\ Cardinality(Positions(saved.children, "LayerControl")) = 1
          /\ \A g \in DOMAIN FeatureGroups :
                /\ Cardinality(Positions(saved.children, FeatureGroups[g])) = 1
                /\ \A a \in Positions(saved.children, FeatureGroups[g]) :
                      \A c \in Positions(saved.children, "LayerControl") :
                          a < c

\* A saved map of a run whose population layer was rendered.
C6_Witness ==
    /\ pc = "done"
    /\ saved.written
    /\ ~field.none
    /\ fg_population # <<>>

PopUsable == ~pop_gdf.none /\ Len(pop_gdf.rows) > 0
FieldChosen == pc \notin {"create_map", "markers"}

\* C8: for non-empty population data the field is the first preferred
\* name that is a column, else the first number column; when there is
\* neither, no field is chosen, nothing is put in the population group and
\* no legend is added; the field chosen is always a number column.
C8_FieldIsNumeric ==
    FieldChosen =>
        /\ PopUsable =>
              LET hits == {n \in DOMAIN possible_names :
                              possible_names[n] \in ColumnNames(pop_gdf)}
                  nums == {n \in DOMAIN pop_gdf.cols :
                              pop_gdf.cols[n].dtype = "number"}
              IN  /\ hits # {} =>
                        /\ ~field.none
                        /\ \E n \in hits :
                              /\ field.name = possible_names[n]
                              /\ \A k \in hits : n <= k
                  /\ (hits = {} /\ nums # {}) =>
                        /\ ~field.none
                        /\ \E n \in nums :
                              /\ field.name = pop_gdf.cols[n].name
                              /\ \A k \in nums : n <= k
                  /\ (hits = {} /\ nums = {}) => field.none
        /\ field.none =>
              /\ fg_population = <<>>
              /\ Positions(m, "Population density") = {}
        /\ ~field.none => Column(pop_gdf, field.name).dtype = "number"

\* The numbers among the non-missing values of the chosen column.
FieldNumbers ==
    LET vals == Vals(pop_gdf, field)
    IN  {Float(vals[n]) : n \in {k \in DOMAIN vals : CanFloat(vals[k])}}

\* C5: whenever the colour scale is built, its minimum is the least and
\* its maximum the greatest non-missing value of the field, except that
\* the maximum is the minimum plus 1 when the two are equal and the range
\* is (0, 1) when no value is present; the minimum is always strictly
\* below the maximum.
C5_ScaleRange ==
    scale.built =>
        /\ scale.vmin < scale.vmax
        /\ Vals(pop_gdf, field) = <<>> => (scale.vmin = 0 /\ scale.vmax = 1)
        /\ Vals(pop_gdf, field) # <<>> =>
              /\ scale.vmin \in FieldNumbers
              /\ \A x \in FieldNumbers : scale.vmin <= x
              /\ IF FieldNumbers = {scale.vmin}
                 THEN scale.vmax = scale.vmin + 1
                 ELSE /\ scale.vmax \in FieldNumbers
                      /\ \A x \in FieldNumbers : x <= scale.vmax

IsPolygonRow(prow) == prow.geometry \in {PolygonGeom, MultiPolygonGeom}
SomePolygonRow == \E n \in DOMAIN pop_gdf.rows : IsPolygonRow(pop_gdf.rows[n])

Layers(kind) == {k \in DOMAIN fg_population : fg_population[k].kind = kind}

PopOver == pc \in {"attach", "control", "save", "done"}

\* The value of a row in the chosen column is missing or no number.
Unusable(prow) ==
    LET val == Val(pop_gdf, field, prow)
    IN  \/ val.k \in {"nan", "none"}
        \/ val.k = "str" /\ ~IsDigits(val.s)

Eligible(prow) == ~Unusable(prow) /\ prow.geometry # NoGeometry

\* C10: in point mode every population row with a numeric value and a
\* geometry gets exactly one circle marker and every other row none, the
\* run going on past the rows it skips; every radius lies between 2 and
\* 20, and no division is by zero.
C10_CircleMarkers ==
    (scale.built /\ ~SomePolygonRow) =>
        /\ pc # "raised"
        /\ \A k \in Layers("CircleMarker") :
              LET r == fg_population[k].radius
              IN  2 * r.den <= r.num /\ r.num <= 20 * r.den
        /\ PopOver =>
              \A n \in DOMAIN pop_gdf.rows :
                  Cardinality({k \in Layers("CircleMarker") :
                                  fg_population[k].row = n})
                     = IF Eligible(pop_gdf.rows[n]) THEN 1 ELSE 0

=============================================================================
